---------------------------- MODULE Spec2Model ----------------------------
(***************************************************************************)
(* Model of the Queens puzzle generator, generatePuzzle(boardSize), of     *)
(* app/utils/puzzleGenerator.ts (stored in src/app/types/chessboard.ts,    *)
(* lines 37-1183).                                                         *)
(*                                                                         *)
(* A cell [r, c] of the size x size board is the number r * size + c, so   *)
(* the row-major scans of the source are scans of 0 .. size*size-1.  A     *)
(* grid is a function from cells to values.  Math.random() is the only     *)
(* input besides boardSize: every place the source draws from it is an     *)
(* input of the action that models that place, drawn from a finite set     *)
(* of the values the draw can produce.                                     *)
(***************************************************************************)
EXTENDS Integers, Sequences, FiniteSets, TLC

VARIABLES
    boardSize,      \* the argument of generatePuzzle
    pc,             \* position of the call
    attempts,       \* generateValidPuzzle: let attempts
    regions,        \* let regions: RegionColor[][]  (the board growRegions fills)
    squares,        \* let squares: SquareState[][]
    queens,         \* const queens = placeQueens()
    potentialSingleCellRegionIndex,  \* growRegions: the queen given growth rate 1
    cellsToProcess, \* growRegions: the work list of [cell, color, growthRate]
    uniqueColors,   \* growRegions: Set of the colours of the board, in insertion order
    regionSizes,    \* growRegions: Map colour -> cell count, taken before the dedup
    colorIdx,       \* growRegions: index in uniqueColors of the next colour to repair
    loopDraws,      \* Math.random in the work list's loop, where the loop is followed
                    \* iteration by iteration: what its draws are
    chessboard      \* the state of the Chessboard component that calls generatePuzzle

vars == <<boardSize, pc, attempts, regions, squares, queens,
          potentialSingleCellRegionIndex, cellsToProcess, uniqueColors,
          regionSizes, colorIdx, loopDraws, chessboard>>

(***************************************************************************)
(* Program constants.                                                      *)
(***************************************************************************)
VALID_SIZES == {8, 9, 10, 11, 12}

AVAILABLE_COLORS ==
    <<"blue", "yellow", "red", "lime", "purple", "cyan", "brown", "green",
      "indigo", "orange", "emerald", "pink", "gray", "amber", "teal", "rose",
      "unassigned">>

UNASSIGNED == "unassigned"

\* The null the grids are filled with when they are (re)allocated.
NULL == "null"

\* SquareState = "empty" | "x" | "queen" | null
SquareState == {"empty", "x", "queen", NULL}

maxAttempts == 100

\* Orthogonal directions only, in the order of the source: [dr, dc]
directions == << <<0, 1>>, <<1, 0>>, <<0, -1>>, <<-1, 0>> >>

(***************************************************************************)
(* Bounds of the model: the inputs that are explored.                      *)
(***************************************************************************)
\* The board sizes generatePuzzle is called with: the valid sizes up to
\* MaxBoardSize, and the invalid sizes of the unit test.
MaxBoardSize == 8

InvalidSizes == {0, -1, 7, 13}

SizeInputs == {n \in VALID_SIZES : n <= MaxBoardSize} \cup InvalidSizes

\* Spec follows a call through its first MaxExploredAttempts attempts;
\* SpecBudget follows it through all of them, with fewer inputs per attempt.
MaxExploredAttempts == 2

\* Values of Math.random() during one call of placeQueens, as fractions
\* <<numerator, denominator>>; every draw of the call returns the same value.
ShuffleDraws == { <<0, 1>>, <<38, 256>>, <<125, 256>> }

\* potentialSingleCellRegionIndex is drawn from 0 .. MaxSingleIndex
MaxSingleIndex == 1

SingleDraws == 0 .. MaxSingleIndex

\* Values of Math.floor(Math.random() * 10) for the growth rates of queens
\* 0, 1, 2, ...: the draws repeat with the period of the sequence.
RateDraws == { <<9, 0, 9>>, <<9, 9, 0>>, <<0, 9, 7>>, <<9>> }

\* How the randomised comparator of the work list's sort resolves: which of
\* the entries that may come first is taken.
SortOutcomes == {"oldest", "newest", "balanced"}

\* Math.random() > 0.5 ? 1 : -1 in the comparator of the sort: the same in
\* every comparison of a run of the work list.
CompareDraws == {1, -1}

\* Math.random() > 0.7 when a neighbour is pushed: in every push, or in none.
DecayOutcomes == {FALSE, TRUE}

\* The inputs of SpecBudget.
BudgetRateDraws == { <<9, 0, 9>> }

BudgetSortOutcomes == {"newest"}

(***************************************************************************)
(* Cells and grids.                                                        *)
(***************************************************************************)
size == boardSize

Cells == 0 .. (size * size - 1)

Row(p) == p \div size
Col(p) == p % size
Pos(r, c) == r * size + c

InBoard(r, c) == r >= 0 /\ r < size /\ c >= 0 /\ c < size

Abs(x) == IF x < 0 THEN -x ELSE x

Max(a, b) == IF a >= b THEN a ELSE b

\* a grid filled with "empty"
EmptyGrid == [p \in Cells |-> "empty"]

\* Array(size).fill(null).map(() => Array(size).fill(null))
NullGrid == [p \in Cells |-> NULL]

\* the cell [r + dr, c + dc] for the d-th direction, as a sequence that is
\* empty unless nr >= 0 && nr < size && nc >= 0 && nc < size
neighbourAt(p, d) ==
    LET nr == Row(p) + directions[d][1]
        nc == Col(p) + directions[d][2]
    IN  IF InBoard(nr, nc) THEN <<Pos(nr, nc)>> ELSE <<>>

\* the cells next to p that are on the board, in the order of `directions'
Neighbours(p) ==
    neighbourAt(p, 1) \o neighbourAt(p, 2) \o neighbourAt(p, 3) \o neighbourAt(p, 4)

\* n is one of Neighbours(p)
IsNeighbour(p, n) ==
    \/ Row(p) = Row(n) /\ Abs(Col(p) - Col(n)) = 1
    \/ Col(p) = Col(n) /\ Abs(Row(p) - Row(n)) = 1

selectedColors == SubSeq(AVAILABLE_COLORS, 1, size)

(***************************************************************************)
(* shuffleArray: Fisher-Yates, j = floor(random * (i + 1)) for i from      *)
(* length-1 down to 1 (0-based), with random = v[1] / v[2].                *)
(***************************************************************************)
\* one iteration of for (let i = array.length - 1; i > 0; i--)
shuffleStep(array, i, v) ==
    IF i < 1 THEN array
    ELSE LET j == (v[1] * (i + 1)) \div v[2]
         IN  [array EXCEPT ![i + 1] = array[j + 1], ![j + 1] = array[i + 1]]

\* four iterations
shuffleSteps(array, i, v) ==
    shuffleStep(
        shuffleStep(
            shuffleStep(
                shuffleStep(array, i, v), i - 1, v),
            i - 2, v),
        i - 3, v)

\* the iterations from i down to 1
RECURSIVE shuffleFrom(_, _, _)
shuffleFrom(array, i, v) ==
    IF i < 1 \/ i >= Len(array) THEN array
    ELSE shuffleFrom(shuffleSteps(shuffleSteps(array, i, v), i - 4, v), i - 8, v)

\* a shuffle that leaves the array as it is
shuffleArrayNone(array, v) == array

shuffleArray(array, v) == shuffleFrom(array, Len(array) - 1, v)

(***************************************************************************)
(* canPlaceQueen(row, col, queens)                                         *)
(***************************************************************************)
\* a check of rows and columns only
canPlaceQueenNoDiagonal(row, col, qs) ==
    \A k \in 1 .. Len(qs) :
        LET qRow == Row(qs[k])
            qCol == Col(qs[k])
        IN  ~(qRow = row \/ qCol = col)

canPlaceQueen(row, col, qs) ==
    \A k \in 1 .. Len(qs) :
        LET qRow == Row(qs[k])
            qCol == Col(qs[k])
        IN  /\ ~(qRow = row \/ qCol = col)
            /\ ~(Abs(qRow - row) = Abs(qCol - col))

\* placeQueens, the condition of the scan:
\*   !queens.some(([qr, qc]) => qr === r || qc === c) && canPlaceQueen(r, c, queens)
Admissible(p, qs) ==
    /\ ~(\E k \in 1 .. Len(qs) : Row(qs[k]) = Row(p) \/ Col(qs[k]) = Col(p))
    /\ canPlaceQueen(Row(p), Col(p), qs)

\* index of the first admissible position of the scan from k on, 0 when there
\* is none
firstAdmissible(positions, k, qs) ==
    LET found == {j \in k .. Len(positions) : Admissible(positions[j], qs)}
    IN  IF found = {} THEN 0
        ELSE CHOOSE j \in found : \A l \in found : j <= l

\* for (let i = 0; i < size; i++) { shuffle; scan; push or throw }
RECURSIVE placeLoop(_, _, _, _)
placeLoop(i, qs, positions, v) ==
    IF i >= size THEN [placed |-> TRUE, queens |-> qs]
    ELSE LET shuffled == shuffleArray(positions, v)
             k == firstAdmissible(shuffled, 1, qs)
         IN  IF k = 0
             THEN [placed |-> FALSE, queens |-> qs]   \* throw "Failed to place queens"
             ELSE placeLoop(i + 1, Append(qs, shuffled[k]), shuffled, v)

placeQueens(v) ==
    placeLoop(0, <<>>, [k \in 1 .. size * size |-> k - 1], v)

\* a marking that leaves out the last queen
markQueensButLast(sq, qs) ==
    [p \in DOMAIN sq |->
        IF \E k \in 1 .. Len(qs) - 1 : qs[k] = p THEN "queen" ELSE sq[p]]

\* queens.forEach(([r, c]) => { squares[r][c] = "queen"; })
markQueens(sq, qs) ==
    [p \in DOMAIN sq |-> IF \E k \in 1 .. Len(qs) : qs[k] = p THEN "queen" ELSE sq[p]]

(***************************************************************************)
(* growRegions(board, queens): seed.                                       *)
(***************************************************************************)
\* a colour taken one place too far in AVAILABLE_COLORS
queenColorShifted(i) == AVAILABLE_COLORS[(i % size) + 2]

\* each colour given to two queens in a row
queenColorTwice(i) == selectedColors[((i \div 2) % Len(selectedColors)) + 1]

\* selectedColors[i % selectedColors.length] for the queen of 0-based index i
queenColor(i) == selectedColors[(i % Len(selectedColors)) + 1]

\* board[r][c] = "unassigned" everywhere, then each queen's cell gets its colour
seedBoard(qs) ==
    [p \in Cells |->
        LET ks == {k \in 1 .. Len(qs) : qs[k] = p}
        IN  IF ks = {} THEN UNASSIGNED
            ELSE queenColor((CHOOSE k \in ks : \A j \in ks : j <= k) - 1)]

\* a growth rate that is the draw for every queen
growthRateDrawn(i, single, draws) == draws[(i % Len(draws)) + 1] + 1

\* let growthRate = Math.floor(Math.random() * 10) + 1;
\* if (i === potentialSingleCellRegionIndex) growthRate = 1;
growthRateOf(i, single, draws) ==
    IF i = single THEN 1 ELSE draws[(i % Len(draws)) + 1] + 1

\* the entries pushed for the unassigned neighbours of cell p
pushesFor(b, p, color, rate) ==
    LET un == SelectSeq(Neighbours(p), LAMBDA n : b[n] = UNASSIGNED)
    IN  [k \in 1 .. Len(un) |-> <<un[k], color, rate>>]

\* queens.forEach((queen, i) => { ... cellsToProcess.push([nr, nc, color, growthRate]) })
RECURSIVE initialEntries(_, _, _, _, _)
initialEntries(b, qs, k, single, draws) ==
    IF k > Len(qs) THEN <<>>
    ELSE pushesFor(b, qs[k], queenColor(k - 1), growthRateOf(k - 1, single, draws))
         \o initialEntries(b, qs, k + 1, single, draws)

(***************************************************************************)
(* growRegions: the work list.  Each iteration sorts cellsToProcess with   *)
(* a comparator that orders two entries by growth rate when the rates      *)
(* differ by more than 2 and at random otherwise, then shifts the first    *)
(* entry.  The order such a comparator gives is not determined; an entry   *)
(* whose rate is within 2 of the highest can come first whatever the sort  *)
(* does (the draws can agree with a descending order that starts with it), *)
(* and the model takes one of those.  The work list is kept in the order   *)
(* of the pushes.                                                          *)
(***************************************************************************)
highestRate(q) ==
    LET rates == {q[i][3] : i \in 1 .. Len(q)}
    IN  CHOOSE m \in rates : \A x \in rates : x <= m

\* Math.abs(priorityDiff) <= 2 : the draw decides
mayComeFirst(e, top) == top - e[3] <= 2

\* the first entry from i on that may come first
firstEligible(q, i, top) ==
    CHOOSE k \in i .. Len(q) :
        /\ mayComeFirst(q[k], top)
        /\ \A j \in i .. (k - 1) : ~mayComeFirst(q[j], top)

\* the last entry up to i that may come first
lastEligible(q, i, top) ==
    CHOOSE k \in 1 .. i :
        /\ mayComeFirst(q[k], top)
        /\ \A j \in (k + 1) .. i : ~mayComeFirst(q[j], top)

colorIndex(color) == CHOOSE k \in 1 .. Len(AVAILABLE_COLORS) : AVAILABLE_COLORS[k] = color

cellCount(b, color) == Cardinality({p \in Cells : b[p] = color})

\* the eligible entry of the colour with the fewest cells (then the lowest
\* colour, the lowest cell, the oldest entry)
balancedEligible(b, q, top) ==
    LET W == {i \in 1 .. Len(q) : mayComeFirst(q[i], top)}
        keyOf == [c \in {q[i][2] : i \in W} |->
                     cellCount(b, c) * Len(AVAILABLE_COLORS) + colorIndex(c)]
        color == CHOOSE c \in DOMAIN keyOf : \A d \in DOMAIN keyOf : keyOf[c] <= keyOf[d]
        cs == {q[i][1] : i \in {j \in W : q[j][2] = color}}
        cell == CHOOSE p \in cs : \A o \in cs : p <= o
        is == {i \in W : q[i][1] = cell /\ q[i][2] = color}
    IN  CHOOSE i \in is : \A j \in is : i <= j

\* the index of the entry that the sort brings to the front
takenIndex(b, q, outcome) ==
    LET top == highestRate(q)
    IN  CASE outcome = "oldest" -> firstEligible(q, 1, top)
          [] outcome = "newest" -> lastEligible(q, Len(q), top)
          [] outcome = "balanced" -> balancedEligible(b, q, top)

removeAt(q, i) == SubSeq(q, 1, i - 1) \o SubSeq(q, i + 1, Len(q))

\* Math.max(1, growthRate - (Math.random() > 0.7 ? 1 : 0))
newGrowthRate(growthRate, decay) == Max(1, growthRate - (IF decay THEN 1 ELSE 0))

\* one iteration of while (cellsToProcess.length > 0)
frontierStep(b, q, outcome, decay) ==
    LET i == takenIndex(b, q, outcome)
        e == q[i]
        rest == removeAt(q, i)
    IN  IF b[e[1]] # UNASSIGNED
        THEN [board |-> b, queue |-> rest]          \* already assigned: continue
        ELSE LET nb == [b EXCEPT ![e[1]] = e[2]]
             IN  [board |-> nb,
                  queue |-> rest \o pushesFor(nb, e[1], e[2], newGrowthRate(e[3], decay))]

\* an iteration of the loop when the work list is not empty
frontierIteration(s, outcome, decay) ==
    IF Len(s.queue) = 0 THEN s
    ELSE frontierStep(s.board, s.queue, outcome, decay)

\* four iterations
frontierIterations(s, outcome, decay) ==
    frontierIteration(
        frontierIteration(
            frontierIteration(
                frontierIteration(s, outcome, decay), outcome, decay),
            outcome, decay),
        outcome, decay)

\* while (cellsToProcess.length > 0): the board when the work list is empty
RECURSIVE processFrontier(_, _, _, _)
processFrontier(b, q, outcome, decay) ==
    IF Len(q) = 0 THEN b
    ELSE LET s == frontierIterations(
                      frontierIterations([board |-> b, queue |-> q], outcome, decay),
                      outcome, decay)
         IN  processFrontier(s.board, s.queue, outcome, decay)

(***************************************************************************)
(* growRegions: the work list, with the sort spelled out.  The comparator  *)
(* is not a consistent one (two entries within 2 of each other compare at  *)
(* random), so the order Array.prototype.sort gives is the one its         *)
(* algorithm happens to give.  In V8 (Node, Chrome) an array of fewer than *)
(* 64 elements is sorted by TimSort as a single run: the initial ascending *)
(* or strictly descending run is found and made ascending, then the other  *)
(* elements are inserted one by one by binary search.  The array is sorted *)
(* in place, so the order of one iteration is the input of the next.       *)
(***************************************************************************)
\* (a, b) => { const priorityDiff = b[3] - a[3];
\*             if (Math.abs(priorityDiff) <= 2) return Math.random() > 0.5 ? 1 : -1;
\*             return priorityDiff; }
compare(a, b, draw) ==
    LET priorityDiff == b[3] - a[3]
    IN  IF Abs(priorityDiff) <= 2 THEN draw ELSE priorityDiff

\* the arrays the sort takes as a single run
isShortArray(a) == Len(a) < 64

reverse(a) == [k \in 1 .. Len(a) |-> a[Len(a) + 1 - k]]

\* the length of the run that starts the array: each element is compared with
\* the one before it, from the third on (idx is the 1-based index of the next)
runLength(a, idx, isDescending, draw) ==
    LET ends == {k \in idx .. Len(a) :
                    LET order == compare(a[k], a[k - 1], draw)
                    IN  (isDescending /\ order >= 0) \/ (~isDescending /\ order < 0)}
    IN  IF ends = {} THEN Len(a)
        ELSE (CHOOSE k \in ends : \A l \in ends : k <= l) - 1

\* the array with its first run made ascending, and the length of that run
makeRun(a, draw) ==
    LET isDescending == compare(a[2], a[1], draw) < 0
        run == runLength(a, 3, isDescending, draw)
    IN  [array |-> IF isDescending
                   THEN reverse(SubSeq(a, 1, run)) \o SubSeq(a, run + 1, Len(a))
                   ELSE a,
         run |-> run]

\* the binary search of the place of pivot among the first `right` elements
\* (left, right and mid count from 0)
RECURSIVE insertionPoint(_, _, _, _, _)
insertionPoint(a, pivot, left, right, draw) ==
    IF left >= right THEN left
    ELSE LET mid == left + ((right - left) \div 2)
         IN  IF compare(pivot, a[mid + 1], draw) < 0
             THEN insertionPoint(a, pivot, left, mid, draw)
             ELSE insertionPoint(a, pivot, mid + 1, right, draw)

\* the element at `start` (counted from 0) inserted among those before it
insertionStep(a, start, draw) ==
    IF start >= Len(a) THEN a
    ELSE LET pivot == a[start + 1]
             left == insertionPoint(a, pivot, 0, start, draw)
         IN  SubSeq(a, 1, left) \o <<pivot>> \o SubSeq(a, left + 1, start)
                 \o SubSeq(a, start + 2, Len(a))

\* four insertions
insertionSteps(a, start, draw) ==
    insertionStep(
        insertionStep(
            insertionStep(
                insertionStep(a, start, draw), start + 1, draw),
            start + 2, draw),
        start + 3, draw)

\* the elements from `start` on (counted from 0) inserted one by one
RECURSIVE binaryInsertionSort(_, _, _)
binaryInsertionSort(a, start, draw) ==
    IF start >= Len(a) THEN a
    ELSE binaryInsertionSort(
             insertionSteps(insertionSteps(a, start, draw), start + 4, draw),
             start + 8, draw)

\* cellsToProcess.sort((a, b) => ...)
sort(a, draw) ==
    IF Len(a) < 2 THEN a
    ELSE LET r == makeRun(a, draw)
         IN  binaryInsertionSort(r.array, r.run, draw)

\* an iteration that colours the cell of the entry it takes whatever the cell
\* holds
sortedStepRecolouring(s, draw, decay) ==
    IF Len(s.queue) = 0 THEN s
    ELSE LET sorted == sort(s.queue, draw)
             e == Head(sorted)
             nb == [s.board EXCEPT ![e[1]] = e[2]]
         IN  [board |-> nb,
              queue |-> IF s.board[e[1]] # UNASSIGNED THEN Tail(sorted)
                        ELSE Tail(sorted) \o pushesFor(nb, e[1], e[2],
                                                       newGrowthRate(e[3], decay)),
              low |-> s.low,
              long |-> s.long]

\* an iteration that pushes no neighbour of the cell it colours
sortedStepNoPush(s, draw, decay) ==
    IF Len(s.queue) = 0 THEN s
    ELSE LET sorted == sort(s.queue, draw)
             e == Head(sorted)
         IN  [board |-> IF s.board[e[1]] # UNASSIGNED THEN s.board
                        ELSE [s.board EXCEPT ![e[1]] = e[2]],
              queue |-> Tail(sorted),
              low |-> s.low,
              long |-> s.long]

\* an iteration that puts the entry of a coloured cell back at the end of the
\* work list
sortedStepRequeue(s, draw, decay) ==
    IF Len(s.queue) = 0 THEN s
    ELSE LET sorted == sort(s.queue, draw)
             e == Head(sorted)
             nb == [s.board EXCEPT ![e[1]] = e[2]]
         IN  IF s.board[e[1]] # UNASSIGNED
             THEN [board |-> s.board, queue |-> Append(Tail(sorted), e),
                   low |-> s.low, long |-> s.long]
             ELSE [board |-> nb,
                   queue |-> Tail(sorted) \o pushesFor(nb, e[1], e[2],
                                                       newGrowthRate(e[3], decay)),
                   low |-> s.low,
                   long |-> s.long]

\* one iteration of while (cellsToProcess.length > 0): sort, shift, skip or
\* assign and push.  `low` records that an iteration has taken an entry more
\* than 2 below the highest growth rate of the work list, `long` that the work
\* list has reached a length the sort is not followed for.
sortedStep(s, draw, decay) ==
    IF Len(s.queue) = 0 THEN s
    ELSE IF ~isShortArray(s.queue) THEN [s EXCEPT !.queue = <<>>, !.long = TRUE]
    ELSE LET sorted == sort(s.queue, draw)
             e == Head(sorted)
             rest == Tail(sorted)
             low == s.low \/ (e[3] < highestRate(s.queue) - 2)
         IN  IF s.board[e[1]] # UNASSIGNED
             THEN [board |-> s.board, queue |-> rest, low |-> low, long |-> s.long]
             ELSE LET nb == [s.board EXCEPT ![e[1]] = e[2]]
                  IN  [board |-> nb,
                       queue |-> rest \o pushesFor(nb, e[1], e[2],
                                                   newGrowthRate(e[3], decay)),
                       low |-> low,
                       long |-> s.long]

\* four iterations
sortedSteps(s, draw, decay) ==
    sortedStep(sortedStep(sortedStep(sortedStep(s, draw, decay), draw, decay),
                          draw, decay),
               draw, decay)

\* while (cellsToProcess.length > 0)
RECURSIVE sortedLoop(_, _, _)
sortedLoop(s, draw, decay) ==
    IF Len(s.queue) = 0 THEN s
    ELSE sortedLoop(sortedSteps(sortedSteps(s, draw, decay), draw, decay), draw, decay)

processFrontierSorted(b, q, draw, decay) ==
    sortedLoop([board |-> b, queue |-> q, low |-> FALSE, long |-> FALSE], draw, decay)

(***************************************************************************)
(* growRegions: fill the cells that are still unassigned.                  *)
(***************************************************************************)
\* the distinct values of the board in the order of their first cell
colorsInOrder(b, p, acc) ==
    LET firsts == {q \in p .. (size * size - 1) :
                      /\ \A k \in 1 .. Len(acc) : acc[k] # b[q]
                      /\ \A r \in p .. (q - 1) : b[r] # b[q]}
    IN  acc \o [k \in 1 .. Cardinality(firsts) |->
                   b[CHOOSE q \in firsts : Cardinality({r \in firsts : r < q}) = k - 1]]

\* the first colour of cs with the fewest cells; selectedColors[0] when cs is empty
fewestCells(b, cs) ==
    IF Len(cs) = 0 THEN selectedColors[1]
    ELSE cs[CHOOSE k \in 1 .. Len(cs) :
                /\ \A j \in 1 .. Len(cs) : cellCount(b, cs[k]) <= cellCount(b, cs[j])
                /\ \A j \in 1 .. (k - 1) : cellCount(b, cs[j]) > cellCount(b, cs[k])]

\* one pass of the two for-loops, from cell p on: the unassigned cells one
\* after the other
RECURSIVE fillPass(_, _, _)
fillPass(b, p, left) ==
    LET todo == {q \in p .. (size * size - 1) : b[q] = UNASSIGNED}
    IN  IF todo = {} THEN [board |-> b, unassignedLeft |-> left]
        ELSE LET cell == CHOOSE q \in todo : \A r \in todo : q <= r
                 assigned == SelectSeq(Neighbours(cell), LAMBDA n : b[n] # UNASSIGNED)
                 minColor == fewestCells(b, SelectSeq(colorsInOrder(b, 0, <<>>),
                                                      LAMBDA c : c # UNASSIGNED))
             IN  IF Len(assigned) > 0
                 THEN fillPass([b EXCEPT ![cell] = b[assigned[1]]], cell + 1, TRUE)
                 ELSE fillPass([b EXCEPT ![cell] = minColor], cell + 1, TRUE)

\* while (unassignedLeft) { unassignedLeft = false; ... }
RECURSIVE fillGaps(_)
fillGaps(b) ==
    LET pass == fillPass(b, 0, FALSE)
    IN  IF pass.unassignedLeft THEN fillGaps(pass.board) ELSE pass.board

(***************************************************************************)
(* growRegions: at most one single-cell region.                            *)
(***************************************************************************)
\* regionSizes: the cell count of every colour of uniqueColors but "unassigned"
sizesOf(b, colors) ==
    [c \in {colors[k] : k \in 1 .. Len(colors)} \ {UNASSIGNED} |-> cellCount(b, c)]

\* the cell of the first queen whose cell has the colour, -1 when there is none
queenOf(b, qs, color) ==
    LET ks == {k \in 1 .. Len(qs) : b[qs[k]] = color}
    IN  IF ks = {} THEN -1 ELSE qs[CHOOSE k \in ks : \A j \in ks : k <= j]

\* only take from regions with > 2 cells
mayGive(sizes, adjColor) == adjColor \in DOMAIN sizes /\ sizes[adjColor] > 2

\* the largest of the regions next to the queen that may give a cell (the first
\* of them in the order of the directions when several are largest), or NULL
largestAdjacent(b, q, color, sizes) ==
    LET adj == SelectSeq(Neighbours(q),
                         LAMBDA n : b[n] # color /\ mayGive(sizes, b[n]))
    IN  IF Len(adj) = 0 THEN NULL
        ELSE b[adj[CHOOSE k \in 1 .. Len(adj) :
                      /\ \A j \in 1 .. Len(adj) : sizes[b[adj[j]]] <= sizes[b[adj[k]]]
                      /\ \A j \in 1 .. (k - 1) : sizes[b[adj[j]]] < sizes[b[adj[k]]]]]

\* a body that takes every cell of the largest adjacent region but the cells
\* of the queens
expandSingleAll(b, qs, color, sizes) ==
    LET q == queenOf(b, qs, color)
    IN  IF q = -1 THEN b
        ELSE LET largestRegion == largestAdjacent(b, q, color, sizes)
             IN  [p \in DOMAIN b |->
                     IF b[p] = largestRegion /\ \A k \in 1 .. Len(qs) : qs[k] # p
                     THEN color ELSE b[p]]

\* a body that leaves the single cell alone
expandSingleNot(b, qs, color, sizes) == b

\* the body of for (let i = 1; i < singleCellColors.length; i++)
expandSingle(b, qs, color, sizes) ==
    LET q == queenOf(b, qs, color)
    IN  IF q = -1 THEN b
        ELSE LET largestRegion == largestAdjacent(b, q, color, sizes)
                 from == SelectSeq(Neighbours(q), LAMBDA n : b[n] = largestRegion)
             IN  IF largestRegion = NULL THEN b
                 ELSE [b EXCEPT ![from[1]] = color]

RECURSIVE expandSingles(_, _, _, _, _)
expandSingles(b, qs, singleCellColors, i, sizes) ==
    IF i > Len(singleCellColors) THEN b
    ELSE expandSingles(expandSingle(b, qs, singleCellColors[i], sizes),
                       qs, singleCellColors, i + 1, sizes)

\* if (singleCellRegions > 1) keep the first one as is, expand the rest
dedupSingles(b, qs, colors, sizes) ==
    LET singleCellColors ==
            SelectSeq(colors, LAMBDA c : c \in DOMAIN sizes /\ sizes[c] = 1)
    IN  IF Len(singleCellColors) > 1
        THEN expandSingles(b, qs, singleCellColors, 2, sizes)
        ELSE b

(***************************************************************************)
(* growRegions: contiguity repair of one colour.                           *)
(***************************************************************************)
\* BFS from the queen over the cells of the colour: the visited cells
RECURSIVE connectedFrom(_, _, _, _)
connectedFrom(b, color, frontier, visited) ==
    IF frontier = {} THEN visited
    ELSE LET next == {n \in Cells \ visited :
                         /\ b[n] = color
                         /\ \E p \in frontier : IsNeighbour(p, n)}
         IN  connectedFrom(b, color, next, visited \cup next)

\* the for-loop over the directions of one dequeued [pr, pc, path]
RECURSIVE pathScan(_, _, _, _, _, _)
pathScan(path, nb, k, pathVisited, pushed, visited) ==
    IF k > Len(nb) THEN [found |-> <<>>, pathVisited |-> pathVisited, pushed |-> pushed]
    ELSE IF nb[k] \in pathVisited
         THEN pathScan(path, nb, k + 1, pathVisited, pushed, visited)
         ELSE LET newPath == Append(path, nb[k])
              IN  IF nb[k] \in visited
                  THEN [found |-> newPath, pathVisited |-> pathVisited \cup {nb[k]},
                        pushed |-> pushed]
                  ELSE pathScan(path, nb, k + 1, pathVisited \cup {nb[k]},
                                Append(pushed, newPath), visited)

\* while (pathQueue.length > 0 && shortestPath.length === 0); a queue entry is
\* its path, whose last cell is [pr, pc]
RECURSIVE pathSearch(_, _, _)
pathSearch(pathQueue, pathVisited, visited) ==
    IF Len(pathQueue) = 0 THEN <<>>
    ELSE LET path == Head(pathQueue)
             scan == pathScan(path, Neighbours(path[Len(path)]), 1, pathVisited,
                              <<>>, visited)
         IN  IF Len(scan.found) > 0 THEN scan.found
             ELSE pathSearch(Tail(pathQueue) \o scan.pushed, scan.pathVisited, visited)

\* a path search that finds no path
shortestPathNone(p, visited) == <<>>

shortestPathFrom(p, visited) == pathSearch(<< <<p>> >>, {p}, visited)

\* a body that leaves the disconnected cell as it is
connectCellNot(b, visited, p, color) ==
    [board |-> b, visited |-> visited, fallback |-> FALSE]

\* the body of for (const [r, c] of disconnectedCells)
connectCell(b, visited, p, color) ==
    IF \E n \in visited : IsNeighbour(p, n)
    THEN [board |-> b, visited |-> visited, fallback |-> FALSE]
    ELSE LET shortestPath == shortestPathFrom(p, visited)
             onPath == {shortestPath[k] : k \in 1 .. Len(shortestPath)}
             other == SelectSeq(Neighbours(p), LAMBDA n : b[n] # color)
         IN  IF Len(shortestPath) > 0
             THEN [board |-> [c \in Cells |-> IF c \in onPath THEN color ELSE b[c]],
                   visited |-> visited \cup onPath, fallback |-> FALSE]
             ELSE [board |-> IF Len(other) > 0 THEN [b EXCEPT ![p] = b[other[1]]] ELSE b,
                   visited |-> visited, fallback |-> TRUE]

RECURSIVE connectCells(_, _, _, _, _)
connectCells(b, visited, disconnectedCells, k, color) ==
    IF k > Len(disconnectedCells) THEN b
    ELSE LET s == connectCell(b, visited, disconnectedCells[k], color)
         IN  connectCells(s.board, s.visited, disconnectedCells, k + 1, color)

\* the cells of S from p on, in row-major order
inOrder(S, p) ==
    LET T == {q \in S : q >= p /\ q < size * size}
    IN  [k \in 1 .. Cardinality(T) |->
            CHOOSE q \in T : Cardinality({r \in T : r < q}) = k - 1]

\* the body of for (const color of uniqueColors) of the second pass
repairColor(b, qs, color) ==
    LET q == queenOf(b, qs, color)
    IN  IF color = UNASSIGNED \/ q = -1 THEN b
        ELSE LET visited == connectedFrom(b, color, {q}, {q})
                 disconnectedCells ==
                     inOrder({p \in Cells : b[p] = color /\ p \notin visited}, 0)
             IN  connectCells(b, visited, disconnectedCells, 1, color)

(***************************************************************************)
(* generateValidPuzzle: validation.                                        *)
(***************************************************************************)
\* regionCounts: the colours of the cells that are not null
countedColors(b) == {b[p] : p \in Cells} \ {NULL}

\* Math.ceil(size * size * 0.3)
maxAllowedSize == (size * size * 3 + 9) \div 10

\* a validation that only counts the regions
isValidCountOnly(b) ==
    Cardinality(countedColors(b)) = size

\* no region too large, and exactly size regions
isValid(b) ==
    /\ \A c \in countedColors(b) : cellCount(b, c) <= maxAllowedSize
    /\ Cardinality(countedColors(b)) = size

(***************************************************************************)
(* One attempt as a function of its draws: placeQueens, growRegions and    *)
(* the validation, composed as generateValidPuzzle composes them.          *)
(***************************************************************************)
\* for (const color of uniqueColors) { ... } : the second pass from colour i on
RECURSIVE repairColors(_, _, _, _)
repairColors(b, qs, colors, i) ==
    IF i > Len(colors) THEN b
    ELSE repairColors(repairColor(b, qs, colors[i]), qs, colors, i + 1)

\* growRegions(board, queens) with the draws it makes
growRegions(qs, single, draws, outcome, decay) ==
    LET seeded == seedBoard(qs)
        grown == processFrontier(seeded, initialEntries(seeded, qs, 1, single, draws),
                                 outcome, decay)
        filled == fillGaps(grown)
        colors == colorsInOrder(filled, 0, <<>>)
        sizes == sizesOf(filled, colors)
    IN  repairColors(dedupSingles(filled, qs, colors, sizes), qs, colors, 1)

\* the body of the loop of generateValidPuzzle: whether the attempt returns,
\* and the pair it returns
attempt(v, single, draws, outcome, decay) ==
    LET res == placeQueens(v)
    IN  IF ~res.placed THEN [returns |-> FALSE]
        ELSE LET board == growRegions(res.queens, single, draws, outcome, decay)
             IN  [returns |-> isValid(board),
                  regions |-> board,
                  squares |-> markQueens(NullGrid, res.queens)]

(***************************************************************************)
(* The call.                                                               *)
(***************************************************************************)
\* no loop is being followed iteration by iteration
NoDraws == [draw |-> 0, decay |-> FALSE]

\* generatePuzzle called on its own, as the unit tests call it
NoChessboard == [phase |-> "unmounted"]

Init ==
    /\ boardSize \in SizeInputs
    /\ pc = "called"
    /\ attempts = 0
    /\ regions = <<>>
    /\ squares = <<>>
    /\ queens = <<>>
    /\ potentialSingleCellRegionIndex = -1
    /\ cellsToProcess = <<>>
    /\ uniqueColors = <<>>
    /\ regionSizes = <<>>
    /\ colorIdx = 0
    /\ loopDraws = NoDraws
    /\ chessboard = NoChessboard

\* a size check that lets 7 through
isValidSizeFrom7(n) == n \in VALID_SIZES \cup {7}

isValidSize(n) == n \in VALID_SIZES

\* if (!VALID_SIZES.includes(boardSize)) throw new Error("Invalid board size ...")
RejectSize ==
    /\ pc = "called"
    /\ ~isValidSize(boardSize)
    /\ pc' = "invalid_size"
    /\ UNCHANGED <<chessboard, loopDraws, boardSize, attempts, regions, squares, queens,
                   potentialSingleCellRegionIndex, cellsToProcess, uniqueColors,
                   regionSizes, colorIdx>>

\* the allocation of regions and squares, and the entry of generateValidPuzzle
Enter ==
    /\ pc = "called"
    /\ isValidSize(boardSize)
    /\ regions' = NullGrid
    /\ squares' = NullGrid
    /\ attempts' = 0
    /\ pc' = "loop"
    /\ UNCHANGED <<chessboard, loopDraws, boardSize, queens, potentialSingleCellRegionIndex,
                   cellsToProcess, uniqueColors, regionSizes, colorIdx>>

\* a loop condition that is off by one
mayAttemptOnceMore(n) == n <= maxAttempts

\* while (attempts < maxAttempts)
mayAttempt(n) == n < maxAttempts

\* an attempt that starts on the grids of the attempt before it
BeginAttemptNoReset ==
    /\ pc = "loop"
    /\ attempts < maxAttempts
    /\ attempts' = attempts + 1
    /\ pc' = "place"
    /\ UNCHANGED <<chessboard, loopDraws, boardSize, regions, squares, queens,
                   potentialSingleCellRegionIndex, cellsToProcess, uniqueColors,
                   regionSizes, colorIdx>>

\* attempts++; regions = ...; squares = ...
BeginAttempt ==
    /\ pc = "loop"
    /\ mayAttempt(attempts)
    /\ attempts' = attempts + 1
    /\ regions' = NullGrid
    /\ squares' = NullGrid
    /\ pc' = "place"
    /\ UNCHANGED <<chessboard, loopDraws, boardSize, queens, potentialSingleCellRegionIndex,
                   cellsToProcess, uniqueColors, regionSizes, colorIdx>>

\* an attempt that Spec follows
ExploredAttempt ==
    /\ attempts < MaxExploredAttempts
    /\ BeginAttempt

\* throw new Error("Failed to generate valid puzzle after 100 attempts")
Exhaust ==
    /\ pc = "loop"
    /\ ~mayAttempt(attempts)
    /\ pc' = "exhausted"
    /\ UNCHANGED <<chessboard, loopDraws, boardSize, attempts, regions, squares, queens,
                   potentialSingleCellRegionIndex, cellsToProcess, uniqueColors,
                   regionSizes, colorIdx>>

\* const queens = placeQueens(); queens.forEach(... squares[r][c] = "queen")
PlaceQueens(draws) ==
    /\ pc = "place"
    /\ \E v \in draws :
          LET res == placeQueens(v)
          IN  /\ res.placed
              /\ queens' = res.queens
              /\ squares' = markQueens(squares, res.queens)
    /\ pc' = "seed"
    /\ UNCHANGED <<chessboard, loopDraws, boardSize, attempts, regions,
                   potentialSingleCellRegionIndex, cellsToProcess, uniqueColors,
                   regionSizes, colorIdx>>

\* a catch that lets the error of placeQueens leave generatePuzzle
PlaceFailsEscapes(draws) ==
    /\ pc = "place"
    /\ \E v \in draws : ~placeQueens(v).placed
    /\ pc' = "failed_to_place"
    /\ UNCHANGED <<chessboard, loopDraws, boardSize, attempts, regions, squares, queens,
                   potentialSingleCellRegionIndex, cellsToProcess, uniqueColors,
                   regionSizes, colorIdx>>

\* placeQueens throws; catch { continue; }
PlaceFails(draws) ==
    /\ pc = "place"
    /\ \E v \in draws : ~placeQueens(v).placed
    /\ pc' = "loop"
    /\ UNCHANGED <<chessboard, loopDraws, boardSize, attempts, regions, squares, queens,
                   potentialSingleCellRegionIndex, cellsToProcess, uniqueColors,
                   regionSizes, colorIdx>>

\* the board is set to "unassigned" and the queens' cells to their colours
GrowSeed ==
    /\ pc = "seed"
    /\ regions' = seedBoard(queens)
    /\ pc' = "rates"
    /\ UNCHANGED <<chessboard, loopDraws, boardSize, attempts, squares, queens,
                   potentialSingleCellRegionIndex, cellsToProcess, uniqueColors,
                   regionSizes, colorIdx>>

\* potentialSingleCellRegionIndex, the growth rates and the first entries
SeedFrontier(singles, rateDraws) ==
    /\ pc = "rates"
    /\ \E single \in singles, draws \in rateDraws :
          /\ single < Len(queens)
          /\ potentialSingleCellRegionIndex' = single
          /\ cellsToProcess' = initialEntries(regions, queens, 1, single, draws)
    /\ pc' = "frontier"
    /\ UNCHANGED <<chessboard, loopDraws, boardSize, attempts, regions, squares, queens, uniqueColors,
                   regionSizes, colorIdx>>

\* while (cellsToProcess.length > 0) { sort; shift; assign; push }
ProcessFrontier(outcomes, decays) ==
    /\ pc = "frontier"
    /\ \E outcome \in outcomes, decay \in decays :
          regions' = processFrontier(regions, cellsToProcess, outcome, decay)
    /\ cellsToProcess' = <<>>
    /\ pc' = "fill"
    /\ UNCHANGED <<chessboard, loopDraws, boardSize, attempts, squares, queens,
                   potentialSingleCellRegionIndex, uniqueColors, regionSizes,
                   colorIdx>>

\* while (cellsToProcess.length > 0) { sort; shift; assign; push }, the sort
\* being the engine's
ProcessFrontierSorted(draws, decays) ==
    /\ pc = "frontier"
    /\ \E draw \in draws, decay \in decays :
          LET s == processFrontierSorted(regions, cellsToProcess, draw, decay)
          IN  /\ ~s.long
              /\ regions' = s.board
    /\ cellsToProcess' = <<>>
    /\ pc' = "fill"
    /\ UNCHANGED <<chessboard, loopDraws, boardSize, attempts, squares, queens,
                   potentialSingleCellRegionIndex, uniqueColors, regionSizes,
                   colorIdx>>

\* the loop of the work list is entered: the draws of its iterations
EnterFrontier(draws, decays) ==
    /\ pc = "frontier"
    /\ loopDraws = NoDraws
    /\ \E draw \in draws, decay \in decays :
          loopDraws' = [draw |-> draw, decay |-> decay]
    /\ UNCHANGED <<chessboard, boardSize, pc, attempts, regions, squares, queens,
                   potentialSingleCellRegionIndex, cellsToProcess, uniqueColors,
                   regionSizes, colorIdx>>

\* one iteration of while (cellsToProcess.length > 0): sort, shift, assign,
\* push; the work lists the sort takes as a single run are followed
FrontierIteration ==
    /\ pc = "frontier"
    /\ loopDraws # NoDraws
    /\ Len(cellsToProcess) > 0
    /\ isShortArray(cellsToProcess)
    /\ LET s == sortedStep([board |-> regions, queue |-> cellsToProcess,
                            low |-> FALSE, long |-> FALSE],
                           loopDraws.draw, loopDraws.decay)
       IN  /\ regions' = s.board
           /\ cellsToProcess' = s.queue
    /\ UNCHANGED <<chessboard, loopDraws, boardSize, pc, attempts, squares, queens,
                   potentialSingleCellRegionIndex, uniqueColors, regionSizes,
                   colorIdx>>

\* cellsToProcess.length > 0 is false: the loop ends
FrontierEnd ==
    /\ pc = "frontier"
    /\ loopDraws # NoDraws
    /\ Len(cellsToProcess) = 0
    /\ loopDraws' = NoDraws
    /\ pc' = "fill"
    /\ UNCHANGED <<chessboard, boardSize, attempts, regions, squares, queens,
                   potentialSingleCellRegionIndex, cellsToProcess, uniqueColors,
                   regionSizes, colorIdx>>

\* while (unassignedLeft) { ... }
FillGaps ==
    /\ pc = "fill"
    /\ regions' = fillGaps(regions)
    /\ pc' = "dedup"
    /\ UNCHANGED <<chessboard, loopDraws, boardSize, attempts, squares, queens,
                   potentialSingleCellRegionIndex, cellsToProcess, uniqueColors,
                   regionSizes, colorIdx>>

\* uniqueColors, regionSizes, and the first pass
DedupSingles ==
    /\ pc = "dedup"
    /\ LET colors == colorsInOrder(regions, 0, <<>>)
           sizes == sizesOf(regions, colors)
       IN  /\ uniqueColors' = colors
           /\ regionSizes' = sizes
           /\ regions' = dedupSingles(regions, queens, colors, sizes)
    /\ colorIdx' = 1
    /\ pc' = "repair"
    /\ UNCHANGED <<chessboard, loopDraws, boardSize, attempts, squares, queens,
                   potentialSingleCellRegionIndex, cellsToProcess>>

\* the second pass, one colour of uniqueColors
RepairColor ==
    /\ pc = "repair"
    /\ colorIdx <= Len(uniqueColors)
    /\ regions' = repairColor(regions, queens, uniqueColors[colorIdx])
    /\ colorIdx' = colorIdx + 1
    /\ UNCHANGED <<chessboard, loopDraws, boardSize, pc, attempts, squares, queens,
                   potentialSingleCellRegionIndex, cellsToProcess, uniqueColors,
                   regionSizes>>

\* return board: the locals of growRegions end with the call
GrowReturn ==
    /\ pc = "repair"
    /\ colorIdx > Len(uniqueColors)
    /\ potentialSingleCellRegionIndex' = -1
    /\ cellsToProcess' = <<>>
    /\ uniqueColors' = <<>>
    /\ regionSizes' = <<>>
    /\ colorIdx' = 0
    /\ pc' = "validate"
    /\ UNCHANGED <<chessboard, loopDraws, boardSize, attempts, regions, squares, queens>>

\* if (isValid) return [regions, squares]
Return ==
    /\ pc = "validate"
    /\ isValid(regions)
    /\ pc' = "returned"
    /\ UNCHANGED <<chessboard, loopDraws, boardSize, attempts, regions, squares, queens,
                   potentialSingleCellRegionIndex, cellsToProcess, uniqueColors,
                   regionSizes, colorIdx>>

\* a region too large or regionCounts.size !== size: the next attempt; the
\* const queens of the try block ends with the iteration
Discard ==
    /\ pc = "validate"
    /\ ~isValid(regions)
    /\ queens' = <<>>
    /\ pc' = "loop"
    /\ UNCHANGED <<chessboard, loopDraws, boardSize, attempts, regions, squares,
                   potentialSingleCellRegionIndex, cellsToProcess, uniqueColors,
                   regionSizes, colorIdx>>

\* the steps of growRegions after the frontier, and the validation
Finish ==
    \/ FillGaps
    \/ DedupSingles
    \/ RepairColor
    \/ GrowReturn
    \/ Return
    \/ Discard

(***************************************************************************)
(* Spec: a call through its first MaxExploredAttempts attempts.            *)
(***************************************************************************)
Next ==
    \/ RejectSize
    \/ Enter
    \/ ExploredAttempt
    \/ PlaceQueens(ShuffleDraws)
    \/ PlaceFails(ShuffleDraws)
    \/ GrowSeed
    \/ SeedFrontier(SingleDraws, RateDraws)
    \/ ProcessFrontier(SortOutcomes, DecayOutcomes)
    \/ Finish

Spec == Init /\ [][Next]_vars

(***************************************************************************)
(* SpecBudget: a call through all its attempts.                            *)
(***************************************************************************)
NextBudget ==
    \/ RejectSize
    \/ Enter
    \/ BeginAttempt
    \/ Exhaust
    \/ PlaceQueens(ShuffleDraws)
    \/ PlaceFails(ShuffleDraws)
    \/ GrowSeed
    \/ SeedFrontier(SingleDraws, BudgetRateDraws)
    \/ ProcessFrontier(BudgetSortOutcomes, DecayOutcomes)
    \/ Finish

SpecBudget == Init /\ [][NextBudget]_vars

(***************************************************************************)
(* SpecSorted: a call whose work list is sorted as the engine sorts it.    *)
(***************************************************************************)
NextSorted ==
    \/ RejectSize
    \/ Enter
    \/ ExploredAttempt
    \/ PlaceQueens(ShuffleDraws)
    \/ PlaceFails(ShuffleDraws)
    \/ GrowSeed
    \/ SeedFrontier(SingleDraws, RateDraws)
    \/ ProcessFrontierSorted(CompareDraws, DecayOutcomes)
    \/ Finish

SpecSorted == Init /\ [][NextSorted]_vars

(***************************************************************************)
(* SpecFrontier: a call whose work list is followed iteration by iteration. *)
(***************************************************************************)
NextFrontier ==
    \/ RejectSize
    \/ Enter
    \/ ExploredAttempt
    \/ PlaceQueens(ShuffleDraws)
    \/ PlaceFails(ShuffleDraws)
    \/ GrowSeed
    \/ SeedFrontier(SingleDraws, RateDraws)
    \/ EnterFrontier(CompareDraws, DecayOutcomes)
    \/ FrontierIteration
    \/ FrontierEnd
    \/ Finish

SpecFrontier == Init /\ [][NextFrontier]_vars

(***************************************************************************)
(* The Chessboard component (app/components/Chessboard.tsx).  Its state is *)
(* the record chessboard, whose fields are the component's useState hooks  *)
(* (message is left out: no JSX reads it).  The grids are kept as the      *)
(* generator keeps them, one value per cell in row-major order, [] being   *)
(* <<>>.  phase says what comes next: "effect" when the useEffect of the   *)
(* last render is to run (after the mount and after each change of size),  *)
(* "idle" when the component waits for the player, "crashed" when a render *)
(* has thrown.  boardSize follows the component's size, which is the       *)
(* argument of its calls of generatePuzzle.                                *)
(***************************************************************************)
\* Math.floor(Math.random() * 5) + 8, as far as the boards are followed
BoardSizes == {n \in VALID_SIZES : n <= MaxBoardSize}

\* The draws of the calls of generatePuzzle that the component makes: the
\* shuffle draws, the index of the queen of growth rate 1, the growth-rate
\* draws, how the sort resolves, whether the pushes decay.
ComponentShuffleDraws == { <<0, 1>>, <<125, 256>> }

ComponentSingleDraws == {0}

ComponentRateDraws == { <<9, 9, 0>>, <<9, 0, 9>> }

ComponentSortOutcomes == {"balanced", "oldest"}

ComponentDecayOutcomes == {FALSE}

\* The cells the player clicks besides the cells of the solution's queens.
OtherCells == {1}

\* Array(n).fill(null).map(() => Array(n).fill(null))
NullGridOf(n) == [p \in 0 .. (n * n - 1) |-> NULL]

\* Array(initialSize).fill(null).map(() => Array(initialSize).fill('purple'))
PlaceholderRegions(n) == [p \in 0 .. (n * n - 1) |-> "purple"]

\* the rows and columns below n of a grid of width m (the component reads no
\* other cell once its size is n)
visiblePart(grid, m, n) ==
    IF grid = <<>> THEN <<>>
    ELSE [p \in 0 .. (n * n - 1) |-> grid[(p \div n) * m + (p % n)]]

\* queenPositions of findConflicts: the queens in row-major order
queenPositions(sq) == inOrder({p \in Cells : sq[p] = "queen"}, 0)

\* findConflicts(squares), regions being the component's
findConflicts(sq, rg) ==
    LET qp == queenPositions(sq)
        lines == [k \in 1 .. size |-> k - 1]
        inRow(r) == SelectSeq(qp, LAMBDA p : Row(p) = r)
        inCol(c) == SelectSeq(qp, LAMBDA p : Col(p) = c)
        rows == SelectSeq(lines, LAMBDA r : Len(inRow(r)) > 1)
        cols == SelectSeq(lines, LAMBDA c : Len(inCol(c)) > 1)
        \* regionQueens: a Map, its keys in the order of their first queen
        keys == SelectSeq([k \in 1 .. Len(qp) |-> k],
                          LAMBDA k : \A j \in 1 .. (k - 1) : rg[qp[j]] # rg[qp[k]])
        inRegion(k) == SelectSeq(qp, LAMBDA p : rg[p] = rg[qp[k]])
        crowded == SelectSeq(keys, LAMBDA k : Len(inRegion(k)) > 1)
        pairs == SelectSeq(
                     [n \in 1 .. Len(qp) * Len(qp) |->
                         << ((n - 1) \div Len(qp)) + 1, ((n - 1) % Len(qp)) + 1 >>],
                     LAMBDA ij : /\ ij[1] < ij[2]
                                 /\ Abs(Row(qp[ij[1]]) - Row(qp[ij[2]])) <= 1
                                 /\ Abs(Col(qp[ij[1]]) - Col(qp[ij[2]])) <= 1)
    IN  [k \in 1 .. Len(rows) |-> [type |-> "row", positions |-> inRow(rows[k])]]
        \o [k \in 1 .. Len(cols) |-> [type |-> "column", positions |-> inCol(cols[k])]]
        \o [k \in 1 .. Len(crowded) |->
               [type |-> "region", positions |-> inRegion(crowded[k])]]
        \o [k \in 1 .. Len(pairs) |->
               [type |-> "adjacent",
                positions |-> <<qp[pairs[k][1]], qp[pairs[k][2]]>>]]

\* the X's of auto-place for the queen at q: the null cells of its row, of its
\* column and of its region
markAround(sq, rg, q) ==
    [p \in DOMAIN sq |->
        IF /\ sq[p] = NULL
           /\ p # q
           /\ (Row(p) = Row(q) \/ Col(p) = Col(q) \/ rg[p] = rg[q])
        THEN "x" ELSE sq[p]]

\* "First clear all X's", "Then re-place X's based on remaining queens"
replaceXs(sq, rg) ==
    LET cleared == [p \in DOMAIN sq |-> IF sq[p] = "x" THEN NULL ELSE sq[p]]
        remaining == {q \in DOMAIN sq : sq[q] = "queen"}
    IN  [p \in DOMAIN sq |->
            IF /\ cleared[p] = NULL
               /\ \E q \in remaining :
                     /\ q # p
                     /\ (Row(p) = Row(q) \/ Col(p) = Col(q) \/ rg[p] = rg[q])
            THEN "x" ELSE cleared[p]]

hasQueen(sq) == \E q \in DOMAIN sq : sq[q] = "queen"

\* the first part of handleSquareClick: newSquares and the conflicts set on the
\* way; thrown when regions[row] is read and regions is []
cycleSquare(c, p) ==
    LET sq == c.squares
    IN  CASE sq[p] = NULL ->
               [squares |-> [sq EXCEPT ![p] = "x"], conflicts |-> <<>>, thrown |-> FALSE]
          [] sq[p] = "x" ->
               IF ~c.autoPlaceXs
               THEN [squares |-> [sq EXCEPT ![p] = "queen"], conflicts |-> c.conflicts,
                     thrown |-> FALSE]
               ELSE IF c.regions = <<>>
               THEN [squares |-> sq, conflicts |-> c.conflicts, thrown |-> TRUE]
               ELSE [squares |-> markAround([sq EXCEPT ![p] = "queen"], c.regions, p),
                     conflicts |-> c.conflicts, thrown |-> FALSE]
          [] OTHER ->
               LET cleared == [sq EXCEPT ![p] = NULL]
               IN  IF ~c.autoPlaceXs
                   THEN [squares |-> cleared, conflicts |-> <<>>, thrown |-> FALSE]
                   ELSE IF c.regions = <<>> /\ hasQueen(cleared)
                   THEN [squares |-> sq, conflicts |-> <<>>, thrown |-> TRUE]
                   ELSE [squares |-> replaceXs(cleared, c.regions), conflicts |-> <<>>,
                         thrown |-> FALSE]

\* a click that sets isSolved whenever the board holds size queens
handleSquareClickCountOnly(c, p) ==
    IF c.showingSolution THEN c
    ELSE LET s == cycleSquare(c, p)
             queenCount == Cardinality({q \in DOMAIN s.squares : s.squares[q] = "queen"})
         IN  IF s.thrown THEN [c EXCEPT !.conflicts = s.conflicts]
             ELSE [c EXCEPT !.squares = s.squares, !.conflicts = s.conflicts,
                            !.isSolved = (c.isSolved \/ queenCount = c.size)]

\* handleSquareClick(row, col); the state set before a throw stays set
handleSquareClick(c, p) ==
    IF c.showingSolution THEN c
    ELSE LET s == cycleSquare(c, p)
             queenCount == Cardinality({q \in DOMAIN s.squares : s.squares[q] = "queen"})
         IN  IF s.thrown THEN [c EXCEPT !.conflicts = s.conflicts]
             ELSE IF queenCount # c.size \/ c.regions = <<>>
             THEN [c EXCEPT !.squares = s.squares, !.conflicts = s.conflicts]
             ELSE LET conflicts == findConflicts(s.squares, c.regions)
                  IN  IF Len(conflicts) = 0
                      THEN [c EXCEPT !.squares = s.squares, !.conflicts = s.conflicts,
                                     !.isSolved = TRUE]
                      ELSE [c EXCEPT !.squares = s.squares, !.conflicts = conflicts]

\* handleRightClick(e, row, col)
handleRightClick(c, p) ==
    IF c.showingSolution \/ c.squares[p] \notin {"queen", "x"} THEN c
    ELSE LET cleared == [c.squares EXCEPT ![p] = NULL]
         IN  IF c.autoPlaceXs /\ c.squares[p] = "queen"
             THEN IF c.regions = <<>> /\ hasQueen(cleared) THEN c
                  ELSE [c EXCEPT !.squares = replaceXs(cleared, c.regions),
                                 !.conflicts = <<>>]
             ELSE [c EXCEPT !.squares = cleared, !.conflicts = <<>>]

\* showSolution(); renderSquare reads squares[row][col] and throws when squares
\* is []
showSolution(c) ==
    IF c.showingSolution
    THEN [c EXCEPT !.squares = NullGridOf(c.size), !.showingSolution = FALSE]
    ELSE [c EXCEPT !.showingSolution = TRUE, !.squares = c.solution,
                   !.phase = IF c.solution = <<>> THEN "crashed" ELSE c.phase]

\* a Clear Board that puts the placeholder grid back
clearBoardAndRegions(c) ==
    [c EXCEPT !.squares = NullGridOf(c.size), !.isSolved = FALSE, !.conflicts = <<>>,
              !.regions = PlaceholderRegions(c.size)]

\* clearBoard()
clearBoard(c) ==
    [c EXCEPT !.squares = NullGridOf(c.size), !.isSolved = FALSE, !.conflicts = <<>>]

\* generateRandomSize(): the effect runs again only when size has changed
generateRandomSize(c, newSize) ==
    [c EXCEPT !.showingSolution = FALSE,
              !.squares = NullGridOf(newSize),
              !.regions = <<>>,
              !.solution = <<>>,
              !.isSolved = FALSE,
              !.conflicts = <<>>,
              !.size = newSize,
              !.phase = IF newSize = c.size THEN "idle" ELSE "effect"]

\* usedColors.size >= Math.ceil(size / 2) && no null in newRegions
acceptsRegions(rg) ==
    /\ 2 * Cardinality({rg[p] : p \in Cells}) >= size
    /\ \A p \in Cells : rg[p] # NULL

\* const newSize = Math.max(8, size - 1)
smallerSize(n) == Max(8, n - 1)

\* const maxRetries = 10
maxRetries == 10

\* the state the component is mounted in
mountedChessboard(initialSize) ==
    [phase |-> "effect",
     retryCount |-> 0,
     size |-> initialSize,
     regions |-> PlaceholderRegions(initialSize),
     isSolved |-> FALSE,
     showingSolution |-> FALSE,
     squares |-> NullGridOf(initialSize),
     autoPlaceXs |-> FALSE,
     solution |-> <<>>,
     conflicts |-> <<>>]

\* generateValidPuzzle of the component, if (isValid) { ... return true; }
acceptPuzzle(c, newRegions, newSolution) ==
    [c EXCEPT !.regions = newRegions,
              !.solution = newSolution,
              !.showingSolution = FALSE,
              !.isSolved = FALSE,
              !.squares = NullGridOf(c.size),
              !.phase = "idle"]

\* the effect after generateValidPuzzle has returned false:
\* setSize(Math.max(8, size - 1)); the effect runs again only when size has
\* changed
giveUp(c) ==
    LET newSize == smallerSize(c.size)
    IN  IF newSize = c.size
        THEN [c EXCEPT !.phase = "idle"]
        ELSE [c EXCEPT !.phase = "effect",
                       !.size = newSize,
                       !.regions = visiblePart(@, c.size, newSize),
                       !.squares = visiblePart(@, c.size, newSize)]

\* retryCount++, and the loop condition retryCount < maxRetries
retry(c) ==
    IF c.retryCount + 1 < maxRetries
    THEN [c EXCEPT !.retryCount = c.retryCount + 1]
    ELSE giveUp([c EXCEPT !.retryCount = c.retryCount + 1])

InitChessboard ==
    /\ boardSize \in BoardSizes
    /\ chessboard = mountedChessboard(boardSize)
    /\ pc = "in_component"
    /\ attempts = 0
    /\ regions = <<>>
    /\ squares = <<>>
    /\ queens = <<>>
    /\ potentialSingleCellRegionIndex = -1
    /\ cellsToProcess = <<>>
    /\ uniqueColors = <<>>
    /\ regionSizes = <<>>
    /\ colorIdx = 0
    /\ loopDraws = NoDraws

generatorLocals ==
    <<potentialSingleCellRegionIndex, cellsToProcess, uniqueColors, regionSizes,
      colorIdx, loopDraws>>

generatorVars ==
    <<pc, attempts, regions, squares, queens, potentialSingleCellRegionIndex,
      cellsToProcess, uniqueColors, regionSizes, colorIdx, loopDraws>>

\* the effect: const success = generateValidPuzzle(), up to its first call of
\* generatePuzzle(size)
RunEffect ==
    /\ chessboard.phase = "effect"
    /\ pc = "in_component"
    /\ chessboard' = [chessboard EXCEPT !.phase = "generating", !.retryCount = 0]
    /\ pc' = "called"
    /\ UNCHANGED <<boardSize, attempts, regions, squares, queens>>
    /\ UNCHANGED generatorLocals

\* the component after a call of generatePuzzle has ended: its next call, or
\* the component at rest
afterCall(c) ==
    /\ chessboard' = c
    /\ boardSize' = c.size
    /\ pc' = IF c.phase = "generating" THEN "called" ELSE "in_component"
    /\ attempts' = 0
    /\ regions' = <<>>
    /\ squares' = <<>>
    /\ queens' = <<>>
    /\ UNCHANGED generatorLocals

\* const [newRegions, newSolution] = generatePuzzle(size), and the rest of the
\* iteration of the loop of generateValidPuzzle
PuzzleReturned ==
    /\ chessboard.phase = "generating"
    /\ pc = "returned"
    /\ afterCall(IF acceptsRegions(regions)
                 THEN acceptPuzzle(chessboard, regions, squares)
                 ELSE retry(chessboard))

\* generatePuzzle(size) throws: catch (error) { ...; retryCount++; }
PuzzleThrown ==
    /\ chessboard.phase = "generating"
    /\ pc \in {"exhausted", "invalid_size"}
    /\ afterCall(retry(chessboard))

\* the placements that are followed: those of the first MaxExploredAttempts
\* attempts of the first call of an effect
ExploredPlacement(draws) ==
    /\ chessboard.retryCount = 0
    /\ attempts <= MaxExploredAttempts
    /\ PlaceQueens(draws)

\* the cells the player clicks
ClickCells ==
    {p \in Cells : chessboard.solution # <<>> /\ chessboard.solution[p] = "queen"}
        \cup OtherCells

\* The player is followed as long as one X at most stands on the cells it
\* clicks: it marks a cell when none of them holds an X.
mayClick(p) ==
    \/ chessboard.squares[p] # NULL
    \/ \A q \in ClickCells : chessboard.squares[q] # "x"

\* onClick={() => !isSolved && handleSquareClick(row, col)}
LeftClick ==
    /\ chessboard.phase = "idle"
    /\ ~chessboard.isSolved
    /\ \E p \in ClickCells :
          /\ mayClick(p)
          /\ chessboard' = handleSquareClick(chessboard, p)
    /\ UNCHANGED boardSize
    /\ UNCHANGED generatorVars

\* onContextMenu={(e) => !isSolved && handleRightClick(e, row, col)}
RightClick ==
    /\ chessboard.phase = "idle"
    /\ ~chessboard.isSolved
    /\ \E p \in ClickCells : chessboard' = handleRightClick(chessboard, p)
    /\ UNCHANGED boardSize
    /\ UNCHANGED generatorVars

\* the button Show Solution / Hide Solution
ShowSolution ==
    /\ chessboard.phase = "idle"
    /\ chessboard' = showSolution(chessboard)
    /\ UNCHANGED boardSize
    /\ UNCHANGED generatorVars

\* the button Clear Board, disabled={showingSolution}
ClearBoard ==
    /\ chessboard.phase = "idle"
    /\ ~chessboard.showingSolution
    /\ chessboard' = clearBoard(chessboard)
    /\ UNCHANGED boardSize
    /\ UNCHANGED generatorVars

\* the switch Auto-place X's; the player is followed setting it on a board
\* without marks
ToggleAutoPlaceXs ==
    /\ chessboard.phase = "idle"
    /\ \A p \in DOMAIN chessboard.squares : chessboard.squares[p] = NULL
    /\ chessboard' = [chessboard EXCEPT !.autoPlaceXs = ~chessboard.autoPlaceXs]
    /\ UNCHANGED boardSize
    /\ UNCHANGED generatorVars

\* the button New Puzzle
NewPuzzle(sizes) ==
    /\ chessboard.phase = "idle"
    /\ \E newSize \in sizes :
          /\ chessboard' = generateRandomSize(chessboard, newSize)
          /\ boardSize' = newSize
    /\ UNCHANGED generatorVars

(***************************************************************************)
(* SpecChessboard: the component from its mount on.                        *)
(***************************************************************************)
NextChessboard ==
    \/ RunEffect
    \/ Enter
    \/ BeginAttempt
    \/ Exhaust
    \/ ExploredPlacement(ComponentShuffleDraws)
    \/ PlaceFails(ComponentShuffleDraws)
    \/ GrowSeed
    \/ SeedFrontier(ComponentSingleDraws, ComponentRateDraws)
    \/ ProcessFrontier(ComponentSortOutcomes, ComponentDecayOutcomes)
    \/ Finish
    \/ PuzzleReturned
    \/ PuzzleThrown
    \/ LeftClick
    \/ RightClick
    \/ ShowSolution
    \/ ClearBoard
    \/ ToggleAutoPlaceXs
    \/ NewPuzzle(BoardSizes)

SpecChessboard == InitChessboard /\ [][NextChessboard]_vars

(***************************************************************************)
(* Properties of the result.                                               *)
(***************************************************************************)
returned == pc = "returned"

QueenCells == {p \in Cells : squares[p] = "queen"}

ColoursOf(b) == {b[p] : p \in Cells}

CellsOf(b, color) == {p \in Cells : b[p] = color}

\* row distance at most 1 and column distance at most 1
Adjacent8(p, q) ==
    /\ Abs(Row(p) - Row(q)) <= 1
    /\ Abs(Col(p) - Col(q)) <= 1

\* equal non-zero row and column distance
SameDiagonal(p, q) ==
    /\ p # q
    /\ Abs(Row(p) - Row(q)) = Abs(Col(p) - Col(q))

\* the cells of S and the cells of the colour that touch them, to a fixpoint
RECURSIVE Flood(_, _, _)
Flood(b, color, S) ==
    LET T == S \cup {p \in CellsOf(b, color) : \E q \in S : IsNeighbour(p, q)}
    IN  IF T = S THEN S ELSE Flood(b, color, T)

SingleComponent(b, color) ==
    LET S == CellsOf(b, color)
    IN  S = {} \/ Flood(b, color, {CHOOSE p \in S : TRUE}) = S

SingleCellColours(b) == {c \in ColoursOf(b) : Cardinality(CellsOf(b, c)) = 1}

\* C1: in a returned puzzle every colour of the regions grid covers exactly
\* one cell marked "queen" in the squares grid.
C1_OneQueenPerRegion ==
    returned =>
        \A c \in ColoursOf(regions) :
            Cardinality(CellsOf(regions, c) \cap QueenCells) = 1

\* a returned puzzle in which a colour covers no queen and another covers two
C1_RegionWithoutQueen ==
    /\ returned
    /\ \E c \in ColoursOf(regions) : CellsOf(regions, c) \cap QueenCells = {}
    /\ \E c \in ColoursOf(regions) :
          Cardinality(CellsOf(regions, c) \cap QueenCells) = 2

\* C2: in a returned regions grid the cells of each colour form a single
\* 4-directionally connected component.
C2_RegionsContiguous ==
    returned => \A c \in ColoursOf(regions) : SingleComponent(regions, c)

\* a returned grid with a colour in two or more components
C2_SplitRegion ==
    /\ returned
    /\ \E c \in ColoursOf(regions) : ~SingleComponent(regions, c)

\* C3: the placement check accepts a candidate cell that shares no row and no
\* column with a placed queen and is not 8-directionally adjacent to one, also
\* when it lies on the diagonal of a placed queen.
C3_DiagonalAccepted ==
    pc = "seed" =>
        \A k \in 1 .. Len(queens), p \in Cells :
            LET placed == SubSeq(queens, 1, k)
            IN  (\A i \in 1 .. k :
                    /\ Row(placed[i]) # Row(p)
                    /\ Col(placed[i]) # Col(p)
                    /\ ~Adjacent8(placed[i], p))
                => canPlaceQueen(Row(p), Col(p), placed)

\* queens are placed, and a cell two steps down the diagonal of the first one
\* is refused although no queen is in its row, in its column or next to it
C3_DiagonalRefused ==
    /\ pc = "seed"
    /\ \E p \in Cells :
          /\ SameDiagonal(p, queens[1])
          /\ ~Adjacent8(p, queens[1])
          /\ ~canPlaceQueen(Row(p), Col(p), <<queens[1]>>)

\* C4: a returned regions grid has at most one colour with exactly one cell.
C4_AtMostOneSingleCell ==
    returned => Cardinality(SingleCellColours(regions)) <= 1

\* a returned grid with two single-cell colours
C4_TwoSingleCells ==
    /\ returned
    /\ Cardinality(SingleCellColours(regions)) >= 2

\* C5: the returned squares grid has exactly N cells marked "queen", exactly
\* one in every row and exactly one in every column.
C5_QueensPerRowAndColumn ==
    returned =>
        /\ Cardinality(QueenCells) = size
        /\ \A r \in 0 .. size - 1 :
              Cardinality({p \in QueenCells : Row(p) = r}) = 1
        /\ \A c \in 0 .. size - 1 :
              Cardinality({p \in QueenCells : Col(p) = c}) = 1

\* a puzzle of size 8 is returned with its queens marked
C5_QueensReturned ==
    /\ returned
    /\ size = 8
    /\ QueenCells = {queens[k] : k \in 1 .. Len(queens)}
    /\ Len(queens) = 8

\* C6: no two queen cells of a result are 8-directionally adjacent.
C6_NoAdjacentQueens ==
    returned =>
        \A p \in QueenCells, q \in QueenCells : p # q => ~Adjacent8(p, q)

\* a result whose queens stand in neighbouring rows, two columns or more apart
C6_QueensInNeighbouringRows ==
    /\ returned
    /\ \E p \in QueenCells, q \in QueenCells :
          /\ Row(q) = Row(p) + 1
          /\ Abs(Col(p) - Col(q)) >= 2

\* C7: a returned regions grid holds exactly N distinct colours and no colour
\* covers more than ceil(0.3 * N * N) cells; a validated grid that breaks
\* either condition is not returned.
C7_ReturnedGridIsValid ==
    /\ returned =>
          /\ Cardinality(ColoursOf(regions)) = size
          /\ \A c \in ColoursOf(regions) :
                10 * Cardinality(CellsOf(regions, c)) < 3 * size * size + 10
    /\ pc = "validate" =>
          \/ /\ Cardinality(ColoursOf(regions)) = size
             /\ \A c \in ColoursOf(regions) :
                   10 * Cardinality(CellsOf(regions, c)) < 3 * size * size + 10
          \/ ~ENABLED Return

\* a grid was discarded for a colour too large, and the next attempt is due
C7_OversizeDiscarded ==
    /\ pc = "loop"
    /\ attempts = 1
    /\ regions # NullGrid
    /\ Cardinality(ColoursOf(regions)) = size
    /\ \E c \in ColoursOf(regions) :
          10 * Cardinality(CellsOf(regions, c)) >= 3 * size * size + 10

\* C8: a call with a size outside {8, ..., 12} fails with the invalid-size
\* error before any attempt: no queen, no grid, attempts never incremented.
C8_InvalidSizeFailsFirst ==
    boardSize \notin {8, 9, 10, 11, 12} =>
        /\ pc \in {"called", "invalid_size"}
        /\ attempts = 0
        /\ queens = <<>>
        /\ regions = <<>>
        /\ squares = <<>>

\* the call with size 13 has failed
C8_InvalidSizeRejected ==
    /\ boardSize = 13
    /\ pc = "invalid_size"

Ended == pc \in {"returned", "exhausted", "invalid_size"}

\* the steps of one attempt that are still to come, at most
StepsOfAttempt ==
    CASE pc = "place" -> 26
      [] pc = "seed" -> 25
      [] pc = "rates" -> 24
      [] pc = "frontier" -> 23
      [] pc = "fill" -> 22
      [] pc = "dedup" -> 21
      [] pc = "repair" -> 20 - colorIdx
      [] pc = "validate" -> 1
      [] OTHER -> 0

\* a bound on the steps the call still takes: 30 for each attempt not yet
\* started, and those of the running attempt
StepsLeft ==
    IF Ended THEN 0
    ELSE IF pc = "called" THEN 30 * 100 + 2
    ELSE 30 * (100 - attempts) + 1 + StepsOfAttempt

\* C9: at most 100 attempts are made; the call returns the first attempt that
\* passes validation, fails as exhausted exactly when 100 attempts have failed,
\* starts no 101st attempt, and every step brings it closer to its end.
C9_AttemptBudget ==
    /\ [](attempts <= 100)
    /\ [](pc = "exhausted" => attempts = 100)
    /\ [](returned => attempts \in 1 .. 100 /\ isValid(regions))
    /\ [](StepsLeft >= 0)
    /\ [][pc = "validate" /\ isValid(regions) => pc' = "returned"]_vars
    /\ [][pc = "loop" /\ attempts = 100 => pc' = "exhausted"]_vars
    /\ [][pc = "loop" /\ attempts < 100 => pc' = "place"]_vars
    /\ [][attempts' # attempts => pc = "loop" /\ attempts' = attempts + 1]_vars
    /\ [][~Ended /\ StepsLeft' < StepsLeft]_vars

\* all 100 attempts failed and the call ended as exhausted
C9_Exhausted ==
    /\ pc = "exhausted"
    /\ attempts = 100

\* C10 (as stated): every cell of the returned squares grid that is not a
\* queen cell holds "empty".
C10_OthersHoldEmpty ==
    returned =>
        \A p \in Cells : squares[p] # "queen" => squares[p] = "empty"

\* C10 (amended): every cell of the returned squares grid that is not a queen
\* cell holds null.
C10_OthersHoldNull ==
    returned =>
        \A p \in Cells : squares[p] # "queen" => squares[p] = NULL

\* a returned squares grid with its N queens and N * N - N other cells
C10_ReturnedSquares ==
    /\ returned
    /\ Cardinality(Cells \ QueenCells) = size * size - size
    /\ \E p \in Cells : squares[p] # "queen"

\* C11: no cell of a returned regions grid holds "unassigned" or null: every
\* cell holds one of the N colours of selectedColors.
C11_OnlyRegionColours ==
    returned =>
        \A p \in Cells :
            /\ regions[p] # UNASSIGNED
            /\ regions[p] # NULL
            /\ \E k \in 1 .. size : regions[p] = selectedColors[k]

\* a returned grid in which each of the N colours of selectedColors appears
C11_AllColoursUsed ==
    /\ returned
    /\ ColoursOf(regions) = {selectedColors[k] : k \in 1 .. size}

InAttempt == pc \in {"seed", "rates", "frontier", "fill", "dedup", "repair", "validate"}

\* C12: the returned pair comes from one attempt: the cells marked "queen" are
\* exactly the queens the returned regions were grown around, both grids are
\* rebuilt from null when an attempt starts, and nothing but the growth of the
\* regions changes them until the attempt ends.
C12_SingleAttemptPair ==
    /\ [](returned =>
            /\ Len(queens) = size
            /\ QueenCells = {queens[k] : k \in 1 .. Len(queens)}
            /\ \A k \in 1 .. Len(queens) : regions[queens[k]] # NULL)
    /\ [][attempts' # attempts =>
            /\ \A p \in Cells : regions'[p] = NULL /\ squares'[p] = NULL]_vars
    /\ [][pc = "seed" =>
            /\ regions' = seedBoard(queens)
            /\ QueenCells = {queens[k] : k \in 1 .. Len(queens)}]_vars
    /\ [][InAttempt /\ pc' # "loop" => UNCHANGED <<queens, squares, attempts>>]_vars

\* a pair returned by the second attempt, after the first one failed
C12_ReturnedBySecondAttempt ==
    /\ returned
    /\ attempts = 2
    /\ QueenCells = {queens[k] : k \in 1 .. Len(queens)}

\* the pairs the first attempt of the call can return
FirstAttemptResults ==
    LET tried == {attempt(v, single, draws, outcome, decay) :
                     v \in ShuffleDraws, single \in SingleDraws, draws \in RateDraws,
                     outcome \in SortOutcomes, decay \in DecayOutcomes}
    IN  {<<r.regions, r.squares>> : r \in {t \in tried : t.returns}}

\* C13: generatePuzzle(8) is not a fixed template: at least two results that
\* differ in a cell of the regions grid or of the squares grid can be returned.
C13_TwoDistinctResults ==
    (pc = "called" /\ boardSize = 8) => Cardinality(FirstAttemptResults) >= 2

\* a result of generatePuzzle(8) that differs from the result of the draws
\* 125/256, index 0, rates <<9, 0, 9>>, "oldest", no decay
C13_AnotherResult ==
    /\ returned
    /\ boardSize = 8
    /\ LET one == attempt(<<125, 256>>, 0, <<9, 0, 9>>, "oldest", FALSE)
       IN  /\ one.returns
           /\ <<regions, squares>> # <<one.regions, one.squares>>

\* C14: a placement that finds no admissible cell for some queen fails as a
\* whole: no queen list, partial or not, comes out of it; the loop absorbs the
\* failure: the attempt has no growth and no validation, it counted once, and
\* the next step is the loop's, never an error of generatePuzzle.
C14_PlacementFailureAbsorbed ==
    /\ [][pc = "place" =>
             \/ /\ pc' = "seed"
                /\ Len(queens') = size
             \/ /\ pc' = "loop"
                /\ \E v \in ShuffleDraws :
                      LET res == placeQueens(v)
                      IN  /\ ~res.placed
                          /\ Len(res.queens) < size
                          /\ \A p \in Cells : ~Admissible(p, res.queens)
                /\ UNCHANGED <<attempts, regions, squares, queens>>
                /\ queens = <<>>
                /\ regions = NullGrid
                /\ squares = NullGrid]_vars
    /\ [][pc' = "place" => pc = "loop" /\ attempts' = attempts + 1]_vars
    /\ [][pc = "loop" => pc' \in {"place", "exhausted"}]_vars

\* the first attempt has failed in placeQueens: it is back at the loop, counted
\* once, with the grids as the reset left them
C14_FailedPlacementAbsorbed ==
    /\ pc = "loop"
    /\ attempts = 1
    /\ regions = NullGrid
    /\ squares = NullGrid
    /\ queens = <<>>
    /\ \E v \in ShuffleDraws : ~placeQueens(v).placed

\* C15: at the end of the seed step the N queen cells hold N pairwise distinct
\* colours, none of them "unassigned", and every other cell holds "unassigned";
\* the first N entries of AVAILABLE_COLORS are such colours for every valid N.
C15_SeededBoard ==
    /\ \A n \in VALID_SIZES :
          \A i, j \in 1 .. n :
             /\ AVAILABLE_COLORS[i] # UNASSIGNED
             /\ i # j => AVAILABLE_COLORS[i] # AVAILABLE_COLORS[j]
    /\ pc = "rates" =>
          /\ Len(queens) = size
          /\ \A i, j \in 1 .. Len(queens) :
                i # j => regions[queens[i]] # regions[queens[j]]
          /\ \A i \in 1 .. Len(queens) :
                /\ regions[queens[i]] # UNASSIGNED
                /\ regions[queens[i]] # NULL
          /\ \A p \in Cells :
                (\A i \in 1 .. Len(queens) : queens[i] # p) => regions[p] = UNASSIGNED

\* the seed step has run on a board of size 8: eight colours on the queens'
\* cells, 56 cells unassigned
C15_EightSeeds ==
    /\ pc = "rates"
    /\ boardSize = 8
    /\ Cardinality({regions[queens[k]] : k \in 1 .. Len(queens)}) = 8
    /\ Cardinality({p \in Cells : regions[p] = UNASSIGNED}) = 56

\* the growth rates of the entries pushed for the queen of 0-based index i
RatesOfQueen(i) ==
    {cellsToProcess[k][3] :
        k \in {j \in 1 .. Len(cellsToProcess) : cellsToProcess[j][2] = queenColor(i)}}

\* C16 as stated: every queen has a priority in 1..10 and exactly one queen has
\* the priority 1.
C16_ExactlyOneLowest ==
    pc = "frontier" =>
       /\ \A i \in 0 .. Len(queens) - 1 : \E r \in 1 .. 10 : RatesOfQueen(i) = {r}
       /\ Cardinality({i \in 0 .. Len(queens) - 1 : RatesOfQueen(i) = {1}}) = 1

\* C16 (amended): every queen has one integer priority in 1..10 and the queen
\* of index potentialSingleCellRegionIndex has the priority 1; any other queen
\* has the priority it drew, which can be 1 as well.
C16_ChosenQueenLowest ==
    pc = "frontier" =>
       /\ \A i \in 0 .. Len(queens) - 1 : \E r \in 1 .. 10 : RatesOfQueen(i) = {r}
       /\ potentialSingleCellRegionIndex \in 0 .. Len(queens) - 1
       /\ RatesOfQueen(potentialSingleCellRegionIndex) = {1}

\* the chosen queen has the priority 1, another queen drew 1 and a third drew 10
C16_AnotherQueenDrewOne ==
    /\ pc = "frontier"
    /\ RatesOfQueen(potentialSingleCellRegionIndex) = {1}
    /\ \E i, j \in 0 .. Len(queens) - 1 :
          /\ i # potentialSingleCellRegionIndex
          /\ RatesOfQueen(i) = {1}
          /\ RatesOfQueen(j) = {10}

\* C17: no iteration of the work list's loop takes an entry whose priority is
\* more than 2 below the highest priority present in the work list.
C17_TakenWithinTwoOfHighest ==
    pc = "frontier" =>
       \A draw \in CompareDraws, decay \in DecayOutcomes :
          ~processFrontierSorted(regions, cellsToProcess, draw, decay).low

\* the work list's loop has run with every comparator draw -1 and every push
\* decayed, from the rates 1, 10, 8 repeating, and has taken an entry more than
\* 2 below the highest priority of the work list
C17_LowEntryTaken ==
    /\ pc = "fill"
    /\ boardSize = 8
    /\ potentialSingleCellRegionIndex = 0
    /\ LET seeded == seedBoard(queens)
           s == processFrontierSorted(
                    seeded, initialEntries(seeded, queens, 1, 0, <<0, 9, 7>>), -1, TRUE)
       IN  /\ s.low
           /\ ~s.long
           /\ regions = s.board

\* the colours that had exactly one cell when regionSizes was counted, in the
\* order of regionSizes
SinglesBefore ==
    SelectSeq(uniqueColors, LAMBDA c : c \in DOMAIN regionSizes /\ regionSizes[c] = 1)

\* the first pass has just run
AfterDedup == pc = "repair" /\ colorIdx = 1

\* C18: after the first pass, when more than one colour had exactly one cell
\* before it, every such colour but the first has at least 2 cells.
C18_LaterSinglesExpanded ==
    (AfterDedup /\ Len(SinglesBefore) > 1) =>
       \A i \in 2 .. Len(SinglesBefore) : cellCount(regions, SinglesBefore[i]) >= 2

\* the first pass has run on a board with three single-cell colours
C18_ThreeSinglesBefore ==
    /\ AfterDedup
    /\ Len(SinglesBefore) = 3
    /\ \A i \in 2 .. 3 : cellCount(regions, SinglesBefore[i]) = 2

\* the colours that have lost a cell in the first pass
Donors == {c \in DOMAIN regionSizes : cellCount(regions, c) < regionSizes[c]}

\* the board the first pass has before the steal of the i-th single-cell colour
BoardBeforeSteal(singles, i, sizes) ==
    expandSingles(regions, queens, SubSeq(singles, 1, i - 1), 2, sizes)

\* C19: in the first pass every steal takes its cell from a region that has
\* more than 2 cells at the moment of the steal, and when the pass is over no
\* region that gave a cell has fewer than 2 cells.
C19_DonorsKeepTwoCells ==
    /\ pc = "dedup" =>
          LET colors == colorsInOrder(regions, 0, <<>>)
              sizes == sizesOf(regions, colors)
              singles == SelectSeq(colors, LAMBDA c : sizes[c] = 1)
          IN  \A i \in 2 .. Len(singles) :
                 LET before == BoardBeforeSteal(singles, i, sizes)
                     donor == largestAdjacent(before, queenOf(before, queens, singles[i]),
                                              singles[i], sizes)
                 IN  /\ donor # NULL => cellCount(before, donor) > 2
                     /\ \A c \in DOMAIN sizes :
                           cellCount(expandSingle(before, queens, singles[i], sizes), c)
                               < cellCount(before, c) => c = donor
    /\ AfterDedup => \A c \in Donors : cellCount(regions, c) >= 2

\* the first pass has taken cells from two regions
C19_TwoDonors ==
    /\ AfterDedup
    /\ Cardinality(Donors) = 2
    /\ \A c \in Donors : regionSizes[c] > 2

\* C20: when the second pass has finished with one colour and has found a
\* queen of that colour, every cell of the colour is joined to that queen's
\* cell through cells of the colour that share an edge.
C20_RepairedColourConnected ==
    [][(pc = "repair" /\ colorIdx <= Len(uniqueColors) /\ colorIdx' = colorIdx + 1) =>
          LET color == uniqueColors[colorIdx]
              q == queenOf(regions, queens, color)
          IN  q # -1 =>
                 /\ regions'[q] = color
                 /\ CellsOf(regions', color) = Flood(regions', color, {q})]_vars

\* the second pass has just repainted cells for a colour that had more than one
\* cell: the colour has gained cells and all of them are joined to its queen
C20_ColourRepainted ==
    /\ pc = "repair"
    /\ colorIdx > 1
    /\ LET color == uniqueColors[colorIdx - 1]
           q == queenOf(regions, queens, color)
       IN  /\ q # -1
           /\ regionSizes[color] >= 2
           /\ cellCount(regions, color) > regionSizes[color]
           /\ CellsOf(regions, color) = Flood(regions, color, {q})


(***************************************************************************)
(* The component: properties of SpecChessboard.                            *)
(***************************************************************************)
\* what the player does to a board: a left click, a right click, Show/Hide
\* Solution, Clear Board, the switch of auto-place X's
PlayerInteraction ==
    \/ LeftClick
    \/ RightClick
    \/ ShowSolution
    \/ ClearBoard
    \/ ToggleAutoPlaceXs

\* C21: no interaction of the player (left click, right click, Clear Board,
\* Show/Hide Solution, the switch of auto-place X's) changes the regions grid
\* of the component; the steps that change it are those of a new puzzle: the
\* effect's generateValidPuzzle and the button New Puzzle.
C21_InteractionsKeepRegions ==
    [][(chessboard.phase # "unmounted" /\ chessboard'.regions # chessboard.regions)
          => /\ ~PlayerInteraction
             /\ (PuzzleReturned \/ PuzzleThrown \/ NewPuzzle(BoardSizes))]_vars

\* C21, its case: the player has switched auto-place X's on and has put a
\* queen and an X on a board whose regions came from the generator
C21_PlayedOnGeneratedRegions ==
    /\ chessboard.phase = "idle"
    /\ chessboard.autoPlaceXs
    /\ chessboard.regions # <<>>
    /\ Cardinality({chessboard.regions[p] : p \in Cells}) = size
    /\ \E p, q \in Cells : chessboard.squares[p] = "queen" /\ chessboard.squares[q] = "x"

\* C22: when every call of generatePuzzle of an effect has failed, the
\* component goes to another board size (or shows an error, which no state
\* of the component does: message is not rendered); it does not wait for the
\* player at the same size with the placeholder regions grid.
C22_FailureLeavesNoPlaceholder ==
    (chessboard.phase # "unmounted" /\ chessboard.retryCount = maxRetries)
        => ~(/\ chessboard.phase = "idle"
             /\ chessboard.regions = PlaceholderRegions(chessboard.size))

\* C22, its case: the last of the maxRetries calls of an effect has thrown
C22_AllRetriesFailed ==
    /\ chessboard.phase # "unmounted"
    /\ chessboard.retryCount = maxRetries
    /\ pc = "in_component"

\* the queens of a squares grid
QueensOn(sq) == {p \in DOMAIN sq : sq[p] = "queen"}

\* no two queens of sq in the same row, in the same column, in the same
\* region of rg, or next to each other in one of the 8 directions
NoTwoQueensInConflict(sq, rg) ==
    \A p, q \in QueensOn(sq) :
        p # q => /\ Row(p) # Row(q)
                 /\ Col(p) # Col(q)
                 /\ rg[p] # rg[q]
                 /\ ~Adjacent8(p, q)

\* C23: isSolved becomes true only in a left click, and only when the click
\* leaves exactly size queens on the board, no two of them in the same row,
\* column or region and no two adjacent in one of the 8 directions.
C23_SolvedOnlyByValidClick ==
    [][(chessboard.phase # "unmounted" /\ ~chessboard.isSolved /\ chessboard'.isSolved)
          => /\ LeftClick
             /\ Cardinality(QueensOn(chessboard'.squares)) = chessboard.size
             /\ chessboard'.regions # <<>>
             /\ NoTwoQueensInConflict(chessboard'.squares, chessboard'.regions)]_vars

\* C23, its case: a click has completed the board and isSolved is true
C23_SolvedByClick ==
    /\ chessboard.phase = "idle"
    /\ chessboard.isSolved
    /\ ~chessboard.showingSolution
    /\ Cardinality(QueensOn(chessboard.squares)) = chessboard.size

\* C24: every puzzle the component has accepted has a solution: its solution
\* grid, checked by findConflicts against its regions grid, has no conflict
\* of rows, columns, regions or adjacency.
C24_SolutionHasNoConflict ==
    (chessboard.phase = "idle" /\ chessboard.solution # <<>>)
        => Len(findConflicts(chessboard.solution, chessboard.regions)) = 0

\* C24, its case: the component shows a puzzle it has accepted
C24_PuzzleAccepted ==
    /\ chessboard.phase = "idle"
    /\ chessboard.solution # <<>>
    /\ Cardinality(QueensOn(chessboard.solution)) = chessboard.size

(***************************************************************************)
(* growRegions: properties of its steps.                                   *)
(***************************************************************************)
\* growRegions has seeded the board and has not returned yet
AfterSeed == pc \in {"rates", "frontier", "fill", "dedup", "repair"}

QueenCellsKeepColour ==
    \A k \in 1 .. Len(queens) : regions[queens[k]] = queenColor(k - 1)

\* C25: from the seeding to the end of growRegions (frontier, gap filling,
\* dedup of the single cells, repair) every queen's cell holds the colour it
\* was seeded with.
C25_QueenCellsKeepColour ==
    AfterSeed => QueenCellsKeepColour

\* C25, its case: growRegions has gone through all its passes, the repair of
\* every colour included, and some colour has been repainted by the repair
C25_RepairedBoard ==
    /\ pc = "repair"
    /\ colorIdx > Len(uniqueColors)
    /\ \E c \in DOMAIN regionSizes : cellCount(regions, c) # regionSizes[c]

\* the work list's loop is being followed
InFrontier == pc = "frontier" /\ loopDraws # NoDraws

\* the cells of the queen's colour are those reached from the queen's cell
\* through cells of the colour, and the queen's cell is their only queen cell
RegionGrownFromQueen(k) ==
    LET color == queenColor(k - 1)
        S == CellsOf(regions, color)
    IN  /\ Flood(regions, color, {queens[k]}) = S
        /\ \A j \in 1 .. Len(queens) : queens[j] \in S => j = k

\* C26: at every iteration of the work list's loop the cells of each colour
\* are connected in the 4 directions and hold one queen cell, the colour's
\* seed; and an iteration changes no cell that already has a colour.
C26_RegionsGrowFromTheirQueens ==
    /\ [](InFrontier => \A k \in 1 .. Len(queens) : RegionGrownFromQueen(k))
    /\ [][InFrontier => \A p \in Cells :
                            regions[p] # UNASSIGNED => regions'[p] = regions[p]]_vars

\* C26, its case: the loop has coloured cells beyond the seeds, and its work
\* list holds an entry of another colour for a cell that has a colour
C26_EntryForColouredCell ==
    /\ InFrontier
    /\ Cardinality({p \in Cells : regions[p] # UNASSIGNED}) > 2 * Len(queens)
    /\ \E i \in 1 .. Len(cellsToProcess) :
          /\ regions[cellsToProcess[i][1]] # UNASSIGNED
          /\ regions[cellsToProcess[i][1]] # cellsToProcess[i][2]

\* C27: when the loop of the work list has ended with the list empty, no cell
\* of the board is "unassigned", and the pass that fills the gaps changes no
\* cell.
C27_FrontierLeavesNoGap ==
    /\ []((pc = "fill" /\ Len(cellsToProcess) = 0) =>
            \A p \in Cells : regions[p] # UNASSIGNED)
    /\ [][(pc = "fill" /\ Len(cellsToProcess) = 0 /\ pc' = "dedup") =>
            regions' = regions]_vars

\* C27, its case: the pass that fills the gaps has run on the board of a loop
\* that was followed to the empty work list
C27_GapsFilledAfterFrontier ==
    /\ pc = "dedup"
    /\ Len(cellsToProcess) = 0
    /\ Len(queens) = size
    /\ regions = fillGaps(regions)

\* C28: whenever isSolved is true, the squares grid on display holds exactly
\* size queens, no two of them in the same row, column or region and no two
\* adjacent in one of the 8 directions.
C28_SolvedMeansSolvedBoard ==
    (chessboard.phase = "idle" /\ chessboard.isSolved)
        => /\ Cardinality(QueensOn(chessboard.squares)) = chessboard.size
           /\ NoTwoQueensInConflict(chessboard.squares, chessboard.regions)

\* C28, its case: the solution has been shown and hidden on a board the
\* player had solved, and isSolved is still true on the empty grid
C28_SolvedAfterHideSolution ==
    /\ chessboard.phase = "idle"
    /\ chessboard.isSolved
    /\ ~chessboard.showingSolution
    /\ chessboard.squares = NullGridOf(chessboard.size)

\* the cells of b that are "unassigned"
Unassigned(b) == {p \in Cells : b[p] = UNASSIGNED}

\* a bound on the iterations the loop of the work list still makes: an
\* iteration takes one entry, and colours a cell when it pushes (at most 4
\* entries)
FrontierStepsLeft == 5 * Cardinality(Unassigned(regions)) + Len(cellsToProcess)

\* the colour the second pass repairs next
RepairedNext == uniqueColors[colorIdx]

\* the cells the BFS from the queen of color reaches
VisitedOf(color) ==
    LET q == queenOf(regions, queens, color)
    IN  connectedFrom(regions, color, {q}, {q})

\* the path search from p ends with a path of distinct cells from p to a cell
\* in visited, or with no path
SearchEnds(p, visited) ==
    LET path == shortestPathFrom(p, visited)
    IN  \/ Len(path) = 0
        \/ /\ Len(path) <= size * size
           /\ path[1] = p
           /\ path[Len(path)] \in visited
           /\ \A i, j \in 1 .. Len(path) : i # j => path[i] # path[j]

\* C29: the partitioner ends.  An iteration of the loop of the work list
\* colours at most one cell, a cell that was "unassigned", and brings the loop
\* closer to its end; one pass of the gap filling leaves no cell "unassigned",
\* so its loop ends with the next pass; and in the repair the BFS from the
\* queen stays on the board and every path search ends.
C29_PartitionerTerminates ==
    /\ [][InFrontier /\ <<regions, cellsToProcess>>' # <<regions, cellsToProcess>> =>
            /\ FrontierStepsLeft' < FrontierStepsLeft
            /\ Cardinality({p \in Cells : regions'[p] # regions[p]}) <= 1
            /\ \A p \in Cells : regions'[p] # regions[p] => regions[p] = UNASSIGNED]_vars
    /\ [](pc \in {"frontier", "fill"} =>
            /\ Unassigned(fillPass(regions, 0, FALSE).board) = {}
            /\ Unassigned(fillGaps(regions)) = {})
    /\ []((pc = "repair" /\ colorIdx <= Len(uniqueColors)
             /\ queenOf(regions, queens, RepairedNext) # -1) =>
            /\ VisitedOf(RepairedNext) \subseteq CellsOf(regions, RepairedNext)
            /\ \A p \in CellsOf(regions, RepairedNext) \ VisitedOf(RepairedNext) :
                  SearchEnds(p, VisitedOf(RepairedNext)))

\* C29, its case: the loop of the work list has ended, the gaps are filled,
\* and the repair has searched a path from a cell the BFS did not reach
C29_RepairSearched ==
    /\ pc = "repair"
    /\ colorIdx > 1
    /\ colorIdx <= Len(uniqueColors)
    /\ queenOf(regions, queens, RepairedNext) # -1
    /\ CellsOf(regions, RepairedNext) \ VisitedOf(RepairedNext) # {}

\* whether the body of the loop over disconnectedCells takes the fallback for
\* one of the cells from the k-th on
RECURSIVE fallbackTaken(_, _, _, _, _)
fallbackTaken(b, visited, disconnectedCells, k, color) ==
    IF k > Len(disconnectedCells) THEN FALSE
    ELSE LET s == connectCell(b, visited, disconnectedCells[k], color)
         IN  \/ s.fallback
             \/ fallbackTaken(s.board, s.visited, disconnectedCells, k + 1, color)

\* the cells of color the BFS from its queen does not reach, in row-major order
DisconnectedOf(color) ==
    inOrder(CellsOf(regions, color) \ VisitedOf(color), 0)

\* C30: in the repair of a colour, the path search from a disconnected cell
\* finds a path to a visited cell, a cell of the colour, and the repaint of
\* the cell to the colour of a neighbour is not executed.
C30_FallbackNeverTaken ==
    (pc = "repair" /\ colorIdx <= Len(uniqueColors)
       /\ RepairedNext # UNASSIGNED /\ queenOf(regions, queens, RepairedNext) # -1)
    => /\ \A p \in CellsOf(regions, RepairedNext) \ VisitedOf(RepairedNext) :
             LET path == shortestPathFrom(p, VisitedOf(RepairedNext))
             IN  /\ Len(path) > 0
                 /\ path[Len(path)] \in VisitedOf(RepairedNext)
                 /\ regions[path[Len(path)]] = RepairedNext
       /\ ~fallbackTaken(regions, VisitedOf(RepairedNext),
                         DisconnectedOf(RepairedNext), 1, RepairedNext)

\* C30, its case: the colour repaired next has a disconnected cell with no
\* visited neighbour, the cell the path search starts from
C30_PathSearched ==
    /\ pc = "repair"
    /\ colorIdx <= Len(uniqueColors)
    /\ queenOf(regions, queens, RepairedNext) # -1
    /\ \E p \in CellsOf(regions, RepairedNext) \ VisitedOf(RepairedNext) :
          \A n \in VisitedOf(RepairedNext) : ~IsNeighbour(p, n)
=============================================================================
